---- MODULE Spec2Model ----
(***************************************************************************)
(* The outbound chat-completion client (DeepseekClient) of the email       *)
(* inference service: makeRequest's retry loop with exponential backoff,   *)
(* the three single-email operations, and the sequential batch classifier. *)
(*                                                                         *)
(* Text is modelled as a sequence of tokens.  A token is an indivisible    *)
(* piece of a string: a whitespace character, the triple backtick, the     *)
(* word json, a piece of other text, or a whole JSON labels document.      *)
(***************************************************************************)
EXTENDS Integers, Sequences, FiniteSets, TLC

\* ------------------------------------------------------------------ bounds
MaxLen == 5          \* longest model content (in tokens) of SpecDecode
MaxBatch == 3        \* longest batch of SpecBatch

\* ------------------------------------------------------- program constants
MaxRetries == 3      \* the maxRetries argument every operation passes
Timeout == 30        \* http.Client.Timeout of the client, in seconds
StatusOK == 200      \* http.StatusOK

\* ------------------------------------------------------------------ tokens
Fence == "<fence>"     \* the triple backtick
JsonTag == "json"
Text == "c"
Newline == "\n"
Space == " "
Nbsp == "<nbsp>"       \* U+00A0: white space to package strings, not to JSON
DocOne == "{\"labels\":[{\"label\":\"work\",\"score\":0.9}]}"
DocTwo == "{\"labels\":[{\"label\":\"spam\",\"score\":0.3},{\"label\":\"work\",\"score\":0.9}]}"
DocEmpty == "{\"labels\":[]}"
DocNoField == "{}"
Docs == {DocOne, DocTwo, DocEmpty, DocNoField}

\* unicode.IsSpace on the tokens of the model
IsSpace(t) == t \in {Newline, Space, Nbsp}

\* the white space encoding/json skips around a value
IsJsonSpace(t) == t \in {Newline, Space}

\* A Go slice of ClassificationLabel: the nil slice, or a list of labels
NilLabels == [isNil |-> TRUE, items |-> <<>>]
LabelList(items) == [isNil |-> FALSE, items |-> items]
Label(l, s) == [Label |-> l, Score |-> s]

\* What encoding/json stores in ClassifyResponse.Labels for each document
\* (scores in tenths)
DocLabels(d) ==
  CASE d = DocOne -> LabelList(<<Label("work", 9)>>)
    [] d = DocTwo -> LabelList(<<Label("spam", 3), Label("work", 9)>>)
    [] d = DocEmpty -> LabelList(<<>>)
    [] OTHER -> NilLabels

\* ------------------------------------------------------- package strings
RECURSIVE TrimLeft(_)
TrimLeft(s) ==
  IF s # <<>> /\ IsSpace(Head(s)) THEN TrimLeft(Tail(s)) ELSE s

RECURSIVE TrimRight(_)
TrimRight(s) ==
  IF s # <<>> /\ IsSpace(s[Len(s)]) THEN TrimRight(SubSeq(s, 1, Len(s) - 1)) ELSE s

TrimSpaceLeftOnly(s) == TrimLeft(s)

TrimSpace(s) == TrimRight(TrimLeft(s))

HasPrefix(s, p) == Len(s) >= Len(p) /\ SubSeq(s, 1, Len(p)) = p

HasSuffix(s, p) == Len(s) >= Len(p) /\ SubSeq(s, Len(s) - Len(p) + 1, Len(s)) = p

TrimPrefix(s, p) == IF HasPrefix(s, p) THEN SubSeq(s, Len(p) + 1, Len(s)) ELSE s

TrimSuffix(s, p) == IF HasSuffix(s, p) THEN SubSeq(s, 1, Len(s) - Len(p)) ELSE s

\* ------------------------------------------------------ encoding/json
\* json.Unmarshal(text, &ClassifyResponse{}): the text must be exactly one
\* JSON value, with optional JSON whitespace around it, and an object
RECURSIVE SkipJsonSpace(_)
SkipJsonSpace(s) ==
  IF s # <<>> /\ IsJsonSpace(Head(s)) THEN SkipJsonSpace(Tail(s)) ELSE s

RECURSIVE DropJsonSpace(_)
DropJsonSpace(s) ==
  IF s # <<>> /\ IsJsonSpace(s[Len(s)])
  THEN DropJsonSpace(SubSeq(s, 1, Len(s) - 1))
  ELSE s

JsonLabels(s) ==
  LET t == DropJsonSpace(SkipJsonSpace(s))
  IN  IF Len(t) = 1 /\ t[1] \in Docs
      THEN [ok |-> TRUE, labels |-> DocLabels(t[1])]
      ELSE [ok |-> FALSE, labels |-> NilLabels]

\* ------------------------------------------------------- HTTP messages
\* A response body: empty, text that is not JSON, or a JSON object with the
\* fields the client looks at (absent fields hold their zero value)
\* (choices holds the message content of each choice, finish the
\* finish_reason of the choices)
EmptyBody ==
  [kind |-> "empty", choices |-> <<>>, finish |-> "", message |-> "", code |-> 0]
TextBody ==
  [kind |-> "text", choices |-> <<>>, finish |-> "", message |-> "", code |-> 0]
ErrorBody ==
  [kind |-> "object", choices |-> <<>>, finish |-> "", message |-> "invalid request",
   code |-> 42]
\* a JSON object whose code is a string: it does not decode into APIError,
\* and decodes into a chat response without choices
MistypedBody ==
  [kind |-> "mistyped", choices |-> <<>>, finish |-> "", message |-> "", code |-> 0]
ChatBodyFinish(cs, f) ==
  [kind |-> "object", choices |-> cs, finish |-> f, message |-> "", code |-> 0]
ChatBody(cs) == ChatBodyFinish(cs, "stop")

Response(status, body) == [status |-> status, body |-> body]
NoResponse == Response(0, EmptyBody)

\* ------------------------------------------------------- results, errors
NoInput == <<"<none>">>

Result(kind, text, labels, list) ==
  [kind |-> kind, text |-> text, labels |-> labels, list |-> list]
NilResult == Result("nil", <<>>, NilLabels, <<>>)
SummaryResponse(text) == Result("summary", text, NilLabels, <<>>)
DraftResponse(text) == Result("draft", text, NilLabels, <<>>)
ClassifyResponse(labels) == Result("classify", <<>>, labels, <<>>)

Error(kind, status, body, message, code, content) ==
  [kind |-> kind, status |-> status, body |-> body, message |-> message,
   code |-> code, content |-> content]
NilError == Error("nil", 0, EmptyBody, "", 0, <<>>)

VARIABLES
  client,     \* the DeepseekClient: BaseURL, APIKey, Model
  op,         \* the operation in progress or last finished
  arg,        \* the content argument of the current SummarizeEmail,
              \* ClassifyEmail or DraftReply call
  pc,         \* where the operation stands
  attempt,    \* makeRequest's loop counter
  bodyBytes,  \* makeRequest's buffered request body
  log,        \* what the current call did so far: send, recv, fail, sleep
  reqs,       \* the requests the current call handed to HTTPClient.Do
  resp,       \* the response makeRequest returned to the current call
  jsonIn,     \* the text ClassifyEmail handed to json.Unmarshal
  result,     \* the value the operation returned
  err,        \* the error the operation returned
  emails,     \* ClassifyEmailsBatch: the input slice
  results,    \* ClassifyEmailsBatch: the results slice
  idx,        \* ClassifyEmailsBatch: the index of the email being classified
  inflight,   \* the number of requests HTTPClient.Do is working on
  earlier,    \* one earlier call of the client, kept to compare it with later ones
  sent,       \* the number of requests sent since the operation was called
  handler,    \* the HTTP handler in progress
  request,    \* the HTTP request the handler serves
  response    \* the http.ResponseWriter of the handler

vars == <<client, op, arg, pc, attempt, bodyBytes, log, reqs, resp, jsonIn,
          result, err, emails, results, idx, inflight, earlier, sent, handler,
          request, response>>

\* what belongs to the HTTP handler, not to the client
hvars == <<handler, request, response>>

\* ------------------------------------------------------------ requests
Endpoint == "/v1/chat/completions"

SystemPrompt(kind) ==
  CASE kind = "summarize" -> "You are an assistant that summarizes emails."
    [] kind = "classify" -> "Classify the email into labels. Output strict JSON."
    [] OTHER -> "Write a polite, concise reply."

UserPrefix(kind) ==
  CASE kind = "summarize" -> "Summarize this email (HTML allowed):"
    [] kind = "classify" -> "Classify this email (HTML allowed):"
    [] OTHER -> "Write a reply to this email (HTML allowed):"

\* json.Marshal(chatRequest{Model, Messages: {system, user}})
ChatRequest(kind, content) ==
  [model |-> client.Model, system |-> SystemPrompt(kind),
   user |-> <<UserPrefix(kind), content>>]

\* the request one attempt of makeRequest builds
NewRequest(body) ==
  [method |-> "POST", url |-> <<client.BaseURL, Endpoint>>, body |-> body,
   contentType |-> "application/json", authorization |-> <<"Bearer", client.APIKey>>]

\* ---------------------------------------------------------- makeRequest
Event(t, n) == [t |-> t, n |-> n]

\* for attempt := 0; attempt <= maxRetries; attempt++
LoopContinuesOneMore(a) == a <= MaxRetries + 1

LoopContinuesOneLess(a) == a < MaxRetries

LoopContinuesTwoMore(a) == a <= MaxRetries + 2

LoopContinues(a) == a <= MaxRetries

\* time.Duration(1<<uint(attempt-1)) * time.Second, in seconds
BackoffDoubled(a) == 2 ^ a

BackoffLinear(a) == a

Backoff(a) == 2 ^ (a - 1)

\* resp.StatusCode >= 500 && resp.StatusCode < 600 && attempt < maxRetries
ShouldRetryAnyError(status, a) == status >= 400 /\ status < 600 /\ a < MaxRetries

ShouldRetryOn200(status, a) ==
  (status = 200 \/ (status >= 500 /\ status < 600)) /\ a < MaxRetries

ShouldRetry(status, a) == status >= 500 /\ status < 600 /\ a < MaxRetries

\* what makeRequest returns: a response, or the error after the last retry
Returned(r) == [failed |-> FALSE, resp |-> r]
GaveUp == [failed |-> TRUE, resp |-> NoResponse]

\* ------------------------------------------------- decoding a response
Outcome(res, e, in) == [res |-> res, err |-> e, jsonIn |-> in]

\* if resp.StatusCode != http.StatusOK { ... }
StatusErrorAlwaysGeneric(r) == Error("status", r.status, r.body, "", 0, <<>>)

StatusError(r) ==
  IF r.body.kind = "object"
  THEN Error("api", 0, EmptyBody, r.body.message, r.body.code, <<>>)
  ELSE Error("status", r.status, r.body, "", 0, <<>>)

\* the part the three operations share: makeRequest's error, a non-200
\* status, a body that is not a chat response, a response without choices
CommonError(mr) ==
  CASE mr.failed -> Error("request", 0, EmptyBody, "", 0, <<>>)
    [] ~mr.failed /\ mr.resp.status # StatusOK -> StatusError(mr.resp)
    [] ~mr.failed /\ mr.resp.status = StatusOK
         /\ mr.resp.body.kind \notin {"object", "mistyped"} ->
         Error("decode", 0, EmptyBody, "", 0, <<>>)
    [] ~mr.failed /\ mr.resp.status = StatusOK
         /\ mr.resp.body.kind \in {"object", "mistyped"}
         /\ Len(mr.resp.body.choices) = 0 -> Error("nochoices", 0, EmptyBody, "", 0, <<>>)
    [] OTHER -> NilError

SummarizeOutcomeLastChoice(mr) ==
  IF CommonError(mr) # NilError
  THEN Outcome(NilResult, CommonError(mr), NoInput)
  ELSE Outcome(SummaryResponse(TrimSpace(mr.resp.body.choices[Len(mr.resp.body.choices)])),
               NilError, NoInput)

SummarizeOutcome(mr) ==
  IF CommonError(mr) # NilError
  THEN Outcome(NilResult, CommonError(mr), NoInput)
  ELSE Outcome(SummaryResponse(TrimSpace(mr.resp.body.choices[1])), NilError, NoInput)

DraftOutcomeBoth(mr) ==
  IF CommonError(mr) # NilError
  THEN Outcome(DraftResponse(<<>>), CommonError(mr), NoInput)
  ELSE Outcome(DraftResponse(TrimSpace(mr.resp.body.choices[1])), NilError, NoInput)

DraftOutcome(mr) ==
  IF CommonError(mr) # NilError
  THEN Outcome(NilResult, CommonError(mr), NoInput)
  ELSE Outcome(DraftResponse(TrimSpace(mr.resp.body.choices[1])), NilError, NoInput)

\* the fence stripping of ClassifyEmail, on the trimmed content
StripFenceNoSuffix(c) ==
  IF HasPrefix(c, <<Fence, JsonTag>>) THEN TrimSpace(TrimPrefix(c, <<Fence, JsonTag>>))
  ELSE IF HasPrefix(c, <<Fence>>) THEN TrimSpace(TrimPrefix(c, <<Fence>>))
  ELSE c

StripFence(c) ==
  IF HasPrefix(c, <<Fence, JsonTag>>)
  THEN TrimSpace(TrimSuffix(TrimPrefix(c, <<Fence, JsonTag>>), <<Fence>>))
  ELSE IF HasPrefix(c, <<Fence>>)
  THEN TrimSpace(TrimSuffix(TrimPrefix(c, <<Fence>>), <<Fence>>))
  ELSE c

ClassifyOutcomeRejectEmpty(mr) ==
  IF CommonError(mr) # NilError
  THEN Outcome(NilResult, CommonError(mr), NoInput)
  ELSE LET responseContent == StripFence(TrimSpace(mr.resp.body.choices[1]))
           out == JsonLabels(responseContent)
       IN  IF out.ok /\ Len(out.labels.items) > 0
           THEN Outcome(ClassifyResponse(out.labels), NilError, responseContent)
           ELSE Outcome(NilResult,
                        Error("invalidjson", 0, EmptyBody, "", 0, responseContent),
                        responseContent)

ClassifyOutcome(mr) ==
  IF CommonError(mr) # NilError
  THEN Outcome(NilResult, CommonError(mr), NoInput)
  ELSE LET responseContent == StripFence(TrimSpace(mr.resp.body.choices[1]))
           out == JsonLabels(responseContent)
       IN  IF out.ok
           THEN Outcome(ClassifyResponse(out.labels), NilError, responseContent)
           ELSE Outcome(NilResult,
                        Error("invalidjson", 0, EmptyBody, "", 0, responseContent),
                        responseContent)

OpOutcome(kind, mr) ==
  CASE kind = "summarize" -> SummarizeOutcome(mr)
    [] kind = "classify" -> ClassifyOutcome(mr)
    [] OTHER -> DraftOutcome(mr)

\* -------------------------------------------------- ClassifyEmailsBatch
ZeroResult == [ID |-> "", Labels |-> NilLabels]

\* the loop body: the result stored for one email
BatchResultFirstID(email, o) ==
  IF o.err # NilError
  THEN [ID |-> emails[1].ID, Labels |-> LabelList(<<>>)]
  ELSE [ID |-> emails[1].ID, Labels |-> o.res.labels]

BatchResultSkipFailed(email, o) ==
  IF o.err # NilError
  THEN ZeroResult
  ELSE [ID |-> email.ID, Labels |-> o.res.labels]

BatchResult(email, o) ==
  IF o.err # NilError
  THEN [ID |-> email.ID, Labels |-> LabelList(<<>>)]
  ELSE [ID |-> email.ID, Labels |-> o.res.labels]

BatchResponse(rs) == Result("batch", <<>>, NilLabels, rs)

\* ------------------------------------------------------------- actions
Kind == IF op = "batch" THEN "classify" ELSE op

\* entering SummarizeEmail, ClassifyEmail or DraftReply: the request body is
\* marshalled, makeRequest reads it into bodyBytes and starts its loop
Enter(kind, content) ==
  /\ arg' = content
  /\ bodyBytes' = ChatRequest(kind, content)
  /\ attempt' = 0
  /\ log' = <<>>
  /\ reqs' = <<>>
  /\ pc' = "send"

CallSwitchingModel(o, content) ==
  /\ pc = "idle"
  /\ op' = o
  /\ Enter(o, content)
  /\ resp' = NoResponse
  /\ jsonIn' = NoInput
  /\ result' = NilResult
  /\ err' = NilError
  /\ emails' = <<>>
  /\ results' = <<>>
  /\ idx' = 0
  /\ client' = [client EXCEPT !.Model = IF o = "draft" THEN "deepseek-reasoner" ELSE @]
  /\ UNCHANGED <<inflight, earlier, sent, hvars>>

Call(o, content) ==
  /\ pc = "idle"
  /\ op' = o
  /\ Enter(o, content)
  /\ resp' = NoResponse
  /\ jsonIn' = NoInput
  /\ result' = NilResult
  /\ err' = NilError
  /\ emails' = <<>>
  /\ results' = <<>>
  /\ idx' = 0
  /\ UNCHANGED <<client, inflight, earlier, sent, hvars>>

SummarizeEmail(content) == Call("summarize", content)

ClassifyEmail(content) == Call("classify", content)

DraftReply(content) == Call("draft", content)

\* the body of ClassifyEmailsBatch up to the first request
EnterBatch(es) ==
  /\ op' = "batch"
  /\ emails' = es
  /\ results' = [i \in 1..Len(es) |-> ZeroResult]
  /\ resp' = NoResponse
  /\ jsonIn' = NoInput
  /\ err' = NilError
  /\ IF Len(es) = 0
     THEN /\ idx' = 1
          /\ result' = BatchResponse(<<>>)
          /\ pc' = "done"
          /\ arg' = ""
          /\ bodyBytes' = ChatRequest("classify", "")
          /\ attempt' = 0
          /\ log' = <<>>
          /\ reqs' = <<>>
     ELSE /\ idx' = 1
          /\ result' = NilResult
          /\ Enter("classify", es[1].Content)
  /\ UNCHANGED <<client, inflight, earlier, sent>>

ClassifyEmailsBatch(es) ==
  /\ pc = "idle"
  /\ EnterBatch(es)
  /\ UNCHANGED hvars

\* what a reader that an earlier attempt has read to its end still yields
ConsumedBody == [model |-> "", system |-> "", user |-> <<"", "">>]

SharedReader(a) == IF a = 0 THEN bodyBytes ELSE ConsumedBody

\* bytes.NewReader(bodyBytes): attempt a reads the buffered bytes from
\* their start
NewReader(a) == bodyBytes

SendWithoutWaiting ==
  /\ pc \in {"send", "wait"}
  /\ inflight < 3
  /\ reqs' = Append(reqs, NewRequest(NewReader(attempt)))
  /\ log' = Append(log, Event("send", attempt))
  /\ pc' = "wait"
  /\ inflight' = inflight + 1
  /\ UNCHANGED sent
  /\ UNCHANGED <<client, op, arg, attempt, bodyBytes, resp, jsonIn, result, err,
                 emails, results, idx, earlier, hvars>>

\* http.NewRequest over a fresh reader of bodyBytes, then HTTPClient.Do;
\* n is the count of requests after this one, where they are counted
SendWith(n) ==
  /\ pc = "send"
  /\ reqs' = Append(reqs, NewRequest(NewReader(attempt)))
  /\ log' = Append(log, Event("send", attempt))
  /\ pc' = "wait"
  /\ inflight' = inflight + 1
  /\ sent' = n
  /\ UNCHANGED <<client, op, arg, attempt, bodyBytes, resp, jsonIn, result, err,
                 emails, results, idx, earlier, hvars>>

Send == SendWith(sent)

\* the same step, counted over the whole operation
CountedSend == SendWith(sent + 1)

FinishReRaising(mr, lg) ==
  LET o == OpOutcome(Kind, mr)
  IN  /\ resp' = mr.resp
      /\ jsonIn' = o.jsonIn
      /\ IF op # "batch"
         THEN /\ result' = o.res
              /\ err' = o.err
              /\ pc' = "done"
              /\ log' = lg
              /\ UNCHANGED <<arg, attempt, bodyBytes, reqs, emails, results, idx>>
         ELSE LET rs == [results EXCEPT ![idx] = BatchResult(emails[idx], o)]
              IN  /\ results' = rs
                  /\ idx' = idx + 1
                  /\ err' = o.err
                  /\ UNCHANGED emails
                  /\ IF idx < Len(emails) /\ o.err = NilError
                     THEN /\ Enter("classify", emails[idx + 1].Content)
                          /\ result' = NilResult
                     ELSE /\ result' = IF o.err = NilError THEN BatchResponse(rs) ELSE NilResult
                          /\ pc' = "done"
                          /\ log' = lg
                          /\ UNCHANGED <<arg, attempt, bodyBytes, reqs>>
      /\ UNCHANGED <<client, op>>

FinishSameEmail(mr, lg) ==
  LET o == OpOutcome(Kind, mr)
  IN  /\ resp' = mr.resp
      /\ jsonIn' = o.jsonIn
      /\ IF op # "batch"
         THEN /\ result' = o.res
              /\ err' = o.err
              /\ pc' = "done"
              /\ log' = lg
              /\ UNCHANGED <<arg, attempt, bodyBytes, reqs, emails, results, idx>>
         ELSE LET rs == [results EXCEPT ![idx] = BatchResult(emails[idx], o)]
              IN  /\ results' = rs
                  /\ err' = NilError
                  /\ UNCHANGED emails
                  /\ IF idx < Len(emails)
                     THEN /\ Enter("classify", emails[idx].Content)
                          /\ result' = NilResult
                          /\ idx' = idx
                     ELSE /\ result' = BatchResponse(rs)
                          /\ idx' = idx + 1
                          /\ pc' = "done"
                          /\ log' = lg
                          /\ UNCHANGED <<arg, attempt, bodyBytes, reqs>>
      /\ UNCHANGED <<client, op>>

\* makeRequest has returned mr: the operation decodes it and returns; in a
\* batch the result is stored and the loop goes on to the next email
Finish(mr, lg) ==
  LET o == OpOutcome(Kind, mr)
  IN  /\ resp' = mr.resp
      /\ jsonIn' = o.jsonIn
      /\ IF op # "batch"
         THEN /\ result' = o.res
              /\ err' = o.err
              /\ pc' = "done"
              /\ log' = lg
              /\ UNCHANGED <<arg, attempt, bodyBytes, reqs, emails, results, idx>>
         ELSE LET rs == [results EXCEPT ![idx] = BatchResult(emails[idx], o)]
              IN  /\ results' = rs
                  /\ idx' = idx + 1
                  /\ err' = NilError
                  /\ UNCHANGED emails
                  /\ IF idx < Len(emails)
                     THEN /\ Enter("classify", emails[idx + 1].Content)
                          /\ result' = NilResult
                     ELSE /\ result' = BatchResponse(rs)
                          /\ pc' = "done"
                          /\ log' = lg
                          /\ UNCHANGED <<arg, attempt, bodyBytes, reqs>>
      /\ UNCHANGED <<client, op>>

\* `continue`: attempt++, the loop condition, and the sleep of the next turn
Continue(lg) ==
  IF LoopContinues(attempt + 1)
  THEN /\ attempt' = attempt + 1
       /\ log' = Append(lg, Event("sleep", Backoff(attempt + 1)))
       /\ pc' = "sleep"
       /\ UNCHANGED <<client, op, arg, bodyBytes, reqs, resp, jsonIn, result, err,
                      emails, results, idx>>
  ELSE Finish(GaveUp, lg)

\* HTTPClient.Do returns an error: no response was obtained
DoFails ==
  /\ pc = "wait"
  /\ inflight' = inflight - 1
  /\ Continue(Append(log, Event("fail", 0)))
  /\ UNCHANGED <<earlier, sent, hvars>>

\* HTTPClient.Do returns the response r
DoResponds(r) ==
  /\ pc = "wait"
  /\ LET lg == Append(log, Event("recv", r.status))
     IN  IF ShouldRetry(r.status, attempt)
         THEN Continue(lg)
         ELSE Finish(Returned(r), lg)
  /\ inflight' = inflight - 1
  /\ UNCHANGED <<earlier, sent, hvars>>

\* time.Sleep returns
WakeUp ==
  /\ pc = "sleep"
  /\ pc' = "send"
  /\ UNCHANGED <<client, op, arg, attempt, bodyBytes, log, reqs, resp, jsonIn,
                 result, err, emails, results, idx, inflight, earlier, sent, hvars>>

\* ---------------------------------------------------------- OpenAIClient
\* the client of src/openai/openai_client.go, as its server constructs it
OpenAIClient ==
  [BaseURL |-> "https://api.openai.com", APIKey |-> "key", Model |-> "gpt-4o-mini"]

OpenAISystemPrompt(kind) ==
  CASE kind = "summarize" ->
         "You are an assistant that summarizes emails. Return a concise summary in plain text."
    [] kind = "classify" ->
         "Classify the email into labels. Output strict JSON: {\"labels\":[{\"label\":string,\"score\":number}]} with no extra text."
    [] OTHER -> "Write a polite, concise reply to the user's email. Output only the reply text."

OpenAIChatRequest(kind, content) ==
  [model |-> OpenAIClient.Model, system |-> OpenAISystemPrompt(kind),
   user |-> <<UserPrefix(kind), content>>]

OpenAINewRequest(body) ==
  [method |-> "POST", url |-> <<OpenAIClient.BaseURL, Endpoint>>, body |-> body,
   contentType |-> "application/json",
   authorization |-> <<"Bearer", OpenAIClient.APIKey>>]

\* the part the three operations share: the error of HTTPClient.Do, a
\* non-200 status, a body that is not a chat response, no choices
OpenAICommonError(mr) ==
  CASE mr.failed -> Error("request", 0, EmptyBody, "", 0, <<>>)
    [] ~mr.failed /\ mr.resp.status # StatusOK ->
         Error("status", mr.resp.status, mr.resp.body, "", 0, <<>>)
    [] ~mr.failed /\ mr.resp.status = StatusOK
         /\ mr.resp.body.kind \notin {"object", "mistyped"} ->
         Error("decode", 0, EmptyBody, "", 0, <<>>)
    [] ~mr.failed /\ mr.resp.status = StatusOK
         /\ mr.resp.body.kind \in {"object", "mistyped"}
         /\ Len(mr.resp.body.choices) = 0 -> Error("nochoices", 0, EmptyBody, "", 0, <<>>)
    [] OTHER -> NilError

OpenAIOutcomeUntrimmed(kind, mr) ==
  IF OpenAICommonError(mr) # NilError
  THEN Outcome(NilResult, OpenAICommonError(mr), NoInput)
  ELSE LET content == mr.resp.body.choices[1]
       IN  CASE kind = "summarize" ->
                  Outcome(SummaryResponse(content), NilError, NoInput)
             [] kind = "classify" ->
                  IF JsonLabels(content).ok
                  THEN Outcome(ClassifyResponse(JsonLabels(content).labels), NilError, content)
                  ELSE Outcome(NilResult, Error("invalidjson", 0, EmptyBody, "", 0, <<>>),
                               content)
             [] OTHER -> Outcome(DraftResponse(content), NilError, NoInput)

\* SummarizeEmail, ClassifyEmail and DraftReply after makeRequest returned
OpenAIOutcome(kind, mr) ==
  IF OpenAICommonError(mr) # NilError
  THEN Outcome(NilResult, OpenAICommonError(mr), NoInput)
  ELSE LET content == mr.resp.body.choices[1]
       IN  CASE kind = "summarize" ->
                  Outcome(SummaryResponse(TrimSpace(content)), NilError, NoInput)
             [] kind = "classify" ->
                  IF JsonLabels(content).ok
                  THEN Outcome(ClassifyResponse(JsonLabels(content).labels), NilError, content)
                  ELSE Outcome(NilResult, Error("invalidjson", 0, EmptyBody, "", 0, <<>>),
                               content)
             [] OTHER -> Outcome(DraftResponse(TrimSpace(content)), NilError, NoInput)

\* an operation of the OpenAIClient up to its request
OpenAICall(o, content) ==
  /\ pc = "idle"
  /\ op' = o
  /\ arg' = content
  /\ bodyBytes' = OpenAIChatRequest(o, content)
  /\ attempt' = 0
  /\ log' = <<>>
  /\ reqs' = <<>>
  /\ pc' = "send"
  /\ resp' = NoResponse
  /\ jsonIn' = NoInput
  /\ result' = NilResult
  /\ err' = NilError
  /\ emails' = <<>>
  /\ results' = <<>>
  /\ idx' = 0
  /\ UNCHANGED <<client, inflight, earlier, sent, hvars>>

\* makeRequest: http.NewRequest over the body, then HTTPClient.Do
OpenAISend ==
  /\ pc = "send"
  /\ reqs' = Append(reqs, OpenAINewRequest(bodyBytes))
  /\ log' = Append(log, Event("send", attempt))
  /\ pc' = "wait"
  /\ inflight' = inflight + 1
  /\ UNCHANGED <<client, op, arg, attempt, bodyBytes, resp, jsonIn, result, err,
                 emails, results, idx, earlier, sent, hvars>>

\* makeRequest has returned mr and the operation returns
OpenAIFinish(mr, lg) ==
  LET o == OpenAIOutcome(op, mr)
  IN  /\ resp' = mr.resp
      /\ jsonIn' = o.jsonIn
      /\ result' = o.res
      /\ err' = o.err
      /\ log' = lg
      /\ pc' = "done"
      /\ inflight' = inflight - 1
      /\ UNCHANGED <<client, op, arg, attempt, bodyBytes, reqs, emails, results,
                     idx, earlier, sent, hvars>>

OpenAIDoFails ==
  /\ pc = "wait"
  /\ OpenAIFinish(GaveUp, Append(log, Event("fail", 0)))

OpenAIDoRespondsRetrying(r) ==
  /\ pc = "wait"
  /\ IF r.status >= 500 /\ attempt < MaxRetries
     THEN /\ attempt' = attempt + 1
          /\ log' = Append(log, Event("recv", r.status))
          /\ pc' = "send"
          /\ inflight' = inflight - 1
          /\ UNCHANGED <<client, op, arg, bodyBytes, reqs, resp, jsonIn, result, err,
                         emails, results, idx, earlier, sent, hvars>>
     ELSE OpenAIFinish(Returned(r), Append(log, Event("recv", r.status)))

OpenAIDoResponds(r) ==
  /\ pc = "wait"
  /\ OpenAIFinish(Returned(r), Append(log, Event("recv", r.status)))

\* ------------------------------------------------- http.ResponseWriter
\* header is the map the handler edits; sent is the copy WriteHeader put on
\* the wire, which later edits of the map do not reach
NoHeader == [ContentType |-> "", ContentEncoding |-> ""]

Message(text, index) == [text |-> text, index |-> index]
NoMessage == Message("", -1)

Payload(kind, error, message, list) ==
  [kind |-> kind, gzip |-> FALSE, error |-> error, message |-> message,
   results |-> list]
NoPayload == Payload("none", "", NoMessage, <<>>)

NewWriter ==
  [wrote |-> FALSE, status |-> 0, header |-> NoHeader, sent |-> NoHeader,
   body |-> NoPayload]

SetHeader(w, k, v) == [w EXCEPT !.header[k] = v]

WriteHeader(w, statusCode) ==
  IF w.wrote
  THEN w
  ELSE [w EXCEPT !.wrote = TRUE, !.status = statusCode, !.sent = w.header]

\* the first Write sends the header with status 200 unless it was sent before
\* and without a Content-Type in the header sent it declares the sniffed one
DetectContentType(data) ==
  IF data.gzip THEN "application/x-gzip" ELSE "text/plain; charset=utf-8"

Write(w, data) ==
  LET h == WriteHeader(w, 200)
  IN  [h EXCEPT !.body = data,
                !.sent.ContentType =
                   IF @ = "" /\ h.body = NoPayload THEN DetectContentType(data) ELSE @]

writeGzipJSON(w, data) ==
  Write(SetHeader(SetHeader(w, "ContentType", "application/json"),
                  "ContentEncoding", "gzip"),
        [data EXCEPT !.gzip = TRUE])

StatusText(statusCode) ==
  CASE statusCode = 400 -> "Bad Request"
    [] statusCode = 405 -> "Method Not Allowed"
    [] OTHER -> "Internal Server Error"

ErrorResponse(error, message) == Payload("error", error, message, <<>>)

JSONError(w, message, statusCode) ==
  writeGzipJSON(WriteHeader(w, statusCode),
                ErrorResponse(StatusText(statusCode), message))

\* ------------------------------------------------------ ClassifyHandler
MaxEmails == 100

\* an HTTP request: the body is unreadable, not JSON, or a JSON document
\* with an emails array (absent or null reads as no emails)
\* a finished call of the client, as its caller saw it, and the response
\* of the handler that made it
CallRecord(o, a, es, lg, r, res, e, w) ==
  [op |-> o, arg |-> a, emails |-> es, log |-> lg, resp |-> r, result |-> res,
   err |-> e, response |-> w]

NoCall == CallRecord("none", "", <<>>, <<>>, NoResponse, NilResult, NilError, NewWriter)

ThisCall == CallRecord(op, arg, emails, log, resp, result, err, response)

RequestBody(kind, es) == [kind |-> kind, emails |-> es, content |-> ""]

\* a body that is the email's text
RawBody(content) == [kind |-> "text", emails |-> <<>>, content |-> content]

Request(method, contentType, body) ==
  [method |-> method, contentType |-> contentType, body |-> body]

NoRequest == Request("", <<>>, RequestBody("none", <<>>))

\* strings.TrimSpace on an email's id or content
BlankStrings == {"", " ", "\n "}
TrimSpaceString(str) == IF str \in BlankStrings THEN "" ELSE str

IsJSONContentType(contentType) ==
  \/ contentType = <<"application/json">>
  \/ HasPrefix(contentType, <<"application/json", ";">>)

TooManyOffByOne(n) == n > MaxEmails + 1

TooMany(n) == n > MaxEmails

\* the loop over batchReq.Emails: the message of the first return, if any
\* (the first iteration that returns is the lowest i one of the tests holds at)
IterationReturns(email) ==
  TrimSpaceString(email.ID) = "" \/ TrimSpaceString(email.Content) = ""

ValidateEmailsContentFirst(es) ==
  LET returning == {i \in 1..Len(es) : IterationReturns(es[i])}
      i == CHOOSE k \in returning : \A j \in returning : k <= j
  IN  IF returning = {}
      THEN NoMessage
      ELSE IF TrimSpaceString(es[i].Content) = ""
           THEN Message("Email content is required for email at index", i - 1)
           ELSE Message("Email ID is required for email at index", i - 1)

ValidateEmails(es) ==
  LET returning == {i \in 1..Len(es) : IterationReturns(es[i])}
      i == CHOOSE k \in returning : \A j \in returning : k <= j
  IN  IF returning = {}
      THEN NoMessage
      ELSE IF TrimSpaceString(es[i].ID) = ""
           THEN Message("Email ID is required for email at index", i - 1)
           ELSE Message("Email content is required for email at index", i - 1)

Rejection(statusCode, message) == [status |-> statusCode, message |-> message]
NoRejection == Rejection(0, NoMessage)

\* the checks of ClassifyHandler in their order; NoRejection if all pass
Validate(req) ==
  CASE req.method # "POST" ->
         Rejection(405, Message("Method not allowed", -1))
    [] req.method = "POST" /\ ~IsJSONContentType(req.contentType) ->
         Rejection(400, Message("Content-Type must be application/json", -1))
    [] req.method = "POST" /\ IsJSONContentType(req.contentType)
         /\ req.body.kind = "unreadable" ->
         Rejection(400, Message("Failed to read request body", -1))
    [] req.method = "POST" /\ IsJSONContentType(req.contentType)
         /\ req.body.kind = "invalid" ->
         Rejection(400, Message("Invalid JSON format", -1))
    [] req.method = "POST" /\ IsJSONContentType(req.contentType)
         /\ req.body.kind = "json" /\ Len(req.body.emails) = 0 ->
         Rejection(400, Message("At least one email is required", -1))
    [] req.method = "POST" /\ IsJSONContentType(req.contentType)
         /\ req.body.kind = "json" /\ Len(req.body.emails) # 0
         /\ TooMany(Len(req.body.emails)) ->
         Rejection(400, Message("Maximum 100 emails allowed per request", -1))
    [] OTHER ->
         IF ValidateEmails(req.body.emails) # NoMessage
         THEN Rejection(400, ValidateEmails(req.body.emails))
         ELSE NoRejection

ClassificationResult(r) == [ID |-> r.ID, Labels |-> r.Labels]

BatchClassifyResponseEcho(rs) ==
  Payload("results", "", NoMessage,
          [i \in 1..Len(rs) |->
             [ID |-> rs[i].ID, Labels |-> rs[i].Labels, Content |-> emails[i].Content]])

BatchClassifyResponse(rs) ==
  Payload("results", "", NoMessage,
          [i \in 1..Len(rs) |-> ClassificationResult(rs[i])])

\* the handler up to its first return or up to the call of the client
ClassifyHandler(req) ==
  /\ pc = "idle"
  /\ handler = "none"
  /\ request' = req
  /\ IF Validate(req) # NoRejection
     THEN /\ response' = JSONError(NewWriter, Validate(req).message,
                                   Validate(req).status)
          /\ handler' = "responded"
          /\ UNCHANGED <<client, op, arg, pc, attempt, bodyBytes, log, reqs, resp,
                         jsonIn, result, err, emails, results, idx, inflight,
                         earlier, sent>>
     ELSE /\ EnterBatch(req.body.emails)
          /\ handler' = "ClassifyHandler"
          /\ response' = NewWriter

\* ClassifyEmailsBatch has returned to the handler
ClassifyRespond ==
  /\ handler = "ClassifyHandler"
  /\ pc = "done"
  /\ response' =
       IF err # NilError
       THEN JSONError(response, Message("Failed to classify emails", -1), 500)
       ELSE writeGzipJSON(response, BatchClassifyResponse(result.list))
  /\ handler' = "responded"
  /\ UNCHANGED <<client, op, arg, pc, attempt, bodyBytes, log, reqs, resp,
                 jsonIn, result, err, emails, results, idx, inflight, earlier, sent,
                 request>>

\* the checks SummarizeHandler and DraftHandler share, in their order
ContentRejection(req) ==
  CASE req.method # "POST" ->
         Rejection(405, Message("Method not allowed", -1))
    [] req.method = "POST" /\ req.body.kind = "unreadable" ->
         Rejection(400, Message("Failed to read request body", -1))
    [] req.method = "POST" /\ req.body.kind # "unreadable"
         /\ TrimSpaceString(req.body.content) = "" ->
         Rejection(400, Message("Email content is required", -1))
    [] OTHER -> NoRejection

\* SummarizeHandler and DraftHandler up to the call of the client
ContentHandler(name, o, req) ==
  /\ pc = "idle"
  /\ handler = "none"
  /\ request' = req
  /\ IF ContentRejection(req) # NoRejection
     THEN /\ response' = JSONError(NewWriter, ContentRejection(req).message,
                                   ContentRejection(req).status)
          /\ handler' = "responded"
          /\ UNCHANGED <<client, op, arg, pc, attempt, bodyBytes, log, reqs, resp,
                         jsonIn, result, err, emails, results, idx, inflight,
                         earlier, sent>>
     ELSE /\ op' = o
          /\ Enter(o, req.body.content)
          /\ resp' = NoResponse
          /\ jsonIn' = NoInput
          /\ result' = NilResult
          /\ err' = NilError
          /\ emails' = <<>>
          /\ results' = <<>>
          /\ idx' = 0
          /\ handler' = name
          /\ response' = NewWriter
          /\ UNCHANGED <<client, inflight, earlier, sent>>

SummarizeHandler(req) == ContentHandler("SummarizeHandler", "summarize", req)

DraftHandler(req) == ContentHandler("DraftHandler", "draft", req)

\* the body of a successful answer: the summary or the draft
TextPayload(kind, text) == Payload(kind, "", Message(text, -1), <<>>)

\* the message of the 500 carries the error of the client
RespondWithDetail(name, message, ok) ==
  /\ handler = name
  /\ pc = "done"
  /\ response' = IF err # NilError
                 THEN JSONError(response, Message(err.kind, -1), 500)
                 ELSE ok
  /\ handler' = "responded"
  /\ UNCHANGED <<client, op, arg, pc, attempt, bodyBytes, log, reqs, resp,
                 jsonIn, result, err, emails, results, idx, inflight, earlier, sent,
                 request>>

\* the client has returned to SummarizeHandler or DraftHandler
Respond(name, message, ok) ==
  /\ handler = name
  /\ pc = "done"
  /\ response' = IF err # NilError
                 THEN JSONError(response, Message(message, -1), 500)
                 ELSE ok
  /\ handler' = "responded"
  /\ UNCHANGED <<client, op, arg, pc, attempt, bodyBytes, log, reqs, resp,
                 jsonIn, result, err, emails, results, idx, inflight, earlier, sent,
                 request>>

SummarizeRespond ==
  Respond("SummarizeHandler", "Failed to summarize email",
          writeGzipJSON(response, TextPayload("summary", result.text)))

DraftRespond ==
  Respond("DraftHandler", "Failed to generate draft reply",
          Write(SetHeader(response, "ContentType", "application/json"),
                TextPayload("draft", result.text)))

\* the caller has taken the returned value, or the handler has returned and
\* the response is complete: the locals of the call are gone
ReturnWith(e) ==
  /\ IF handler = "none" THEN pc = "done" ELSE handler = "responded"
  /\ earlier' = e
  /\ sent' = 0
  /\ handler' = "none"
  /\ request' = NoRequest
  /\ response' = NewWriter
  /\ pc' = "idle"
  /\ op' = "none"
  /\ arg' = ""
  /\ attempt' = 0
  /\ bodyBytes' = ChatRequest("none", "")
  /\ log' = <<>>
  /\ reqs' = <<>>
  /\ resp' = NoResponse
  /\ jsonIn' = NoInput
  /\ result' = NilResult
  /\ err' = NilError
  /\ emails' = <<>>
  /\ results' = <<>>
  /\ idx' = 0
  /\ UNCHANGED <<client, inflight>>

Return == ReturnWith(earlier)

\* the same return, the finished call being kept for a later comparison
Remember ==
  /\ earlier = NoCall
  /\ handler = "none"
  /\ ReturnWith(ThisCall)

\* the return of a handler, its call and its response being kept
RememberResponse ==
  /\ earlier = NoCall
  /\ handler = "responded"
  /\ ReturnWith(ThisCall)

\* ------------------------------------------------------- environment
EmailContents == {"c1", "c2"}

Email(id, content) == [ID |-> id, Content |-> content]

BatchEmails == {Email("a", "c1"), Email("a", "c2"), Email("b", "c1")}

Batches == UNION {[1..n -> BatchEmails] : n \in 0..MaxBatch}

Statuses == {200, 400, 429, 500, 503}

ModelContents ==
  {<<DocOne>>, <<DocTwo>>, <<DocEmpty>>, <<DocNoField>>, <<Text>>, <<>>,
   <<Newline, Space>>, <<Space, Text, Newline>>,
   <<Fence, JsonTag, Newline, DocOne, Newline, Fence>>,
   <<Fence, Newline, DocTwo, Newline, Fence>>,
   <<Fence, JsonTag, Newline, Text, Newline, Fence>>}

Bodies ==
  {EmptyBody, TextBody, ErrorBody, MistypedBody}
    \cup {ChatBody(<<c>>) : c \in ModelContents}
    \cup {ChatBody(<<c, <<Text>>>>) : c \in {<<DocOne>>, <<Newline, Space>>}}

Responses == {Response(s, b) : s \in Statuses, b \in Bodies}

BatchResponses ==
  {Response(200, ChatBody(<<c>>)) :
      c \in {<<DocOne>>, <<DocTwo>>, <<DocNoField>>, <<Text>>}}
    \cup {Response(400, TextBody), Response(500, ErrorBody)}

\* the requests the HTTP server is given: every short batch over valid and
\* invalid emails, batches at the limit of MaxEmails and beyond it, and
\* requests that fail before the emails are looked at
HandlerEmails ==
  BatchEmails \cup {Email("", "c1"), Email("a", " "), Email("\n ", "")}

HandlerBatches == UNION {[1..n -> HandlerEmails] : n \in 0..MaxBatch}

LongBatches ==
  {[i \in 1..MaxEmails |-> Email("a", "c1")],
   [i \in 1..MaxEmails |-> IF i = MaxEmails THEN Email("a", " ") ELSE Email("a", "c1")],
   [i \in 1..(MaxEmails + 1) |-> Email("a", "c1")],
   [i \in 1..(MaxEmails + 1) |-> Email("", "c1")]}

Methods == {"POST", "GET"}

ContentTypes ==
  {<<"application/json">>, <<"application/json", ";", " charset=utf-8">>,
   <<"application/jsonx">>, <<"text/plain">>, <<>>}

HandlerRequests ==
  {Request("POST", <<"application/json">>, RequestBody("json", es)) :
      es \in HandlerBatches \cup LongBatches}
    \cup {Request(m, ct, b) :
            m \in Methods, ct \in ContentTypes,
            b \in {RequestBody("unreadable", <<>>), RequestBody("invalid", <<>>),
                   RequestBody("json", <<Email("a", "c1")>>)}}

HandlerResponses ==
  {Response(200, ChatBody(<<<<DocOne>>>>)), Response(200, ChatBody(<<<<Text>>>>)),
   Response(503, TextBody)}

\* a batch longer than MaxBatch meets an upstream with one reply only
Upstream(es) ==
  IF Len(es) > MaxBatch
  THEN {Response(200, ChatBody(<<<<Text>>>>))}
  ELSE HandlerResponses

Tokens == {Fence, JsonTag, Text, Newline, DocOne}

TokenContents == UNION {[1..n -> Tokens] : n \in 0..MaxLen}

DecodeResponses == {Response(200, ChatBody(<<c>>)) : c \in TokenContents}

\* ----------------------------------------------------- specifications
Init ==
  /\ client = [BaseURL |-> "https://api.deepseek.com", APIKey |-> "key",
               Model |-> "deepseek-chat"]
  /\ op = "none"
  /\ arg = ""
  /\ pc = "idle"
  /\ attempt = 0
  /\ bodyBytes = ChatRequest("none", "")
  /\ log = <<>>
  /\ reqs = <<>>
  /\ resp = NoResponse
  /\ jsonIn = NoInput
  /\ result = NilResult
  /\ err = NilError
  /\ emails = <<>>
  /\ results = <<>>
  /\ idx = 0
  /\ inflight = 0
  /\ earlier = NoCall
  /\ sent = 0
  /\ handler = "none"
  /\ request = NoRequest
  /\ response = NewWriter

\* the three single-email operations against any upstream
Next ==
  \/ \E c \in EmailContents : SummarizeEmail(c)
  \/ \E c \in EmailContents : ClassifyEmail(c)
  \/ \E c \in EmailContents : DraftReply(c)
  \/ Send
  \/ DoFails
  \/ \E r \in Responses : DoResponds(r)
  \/ WakeUp
  \/ Return

Spec == Init /\ [][Next]_vars

\* the batch classifier
NextBatch ==
  \/ \E es \in Batches : ClassifyEmailsBatch(es)
  \/ Send
  \/ DoFails
  \/ \E r \in BatchResponses : DoResponds(r)
  \/ WakeUp
  \/ Return

SpecBatch == Init /\ [][NextBatch]_vars

\* the decoding of every model content up to MaxLen tokens
NextDecode ==
  \/ SummarizeEmail("c1")
  \/ ClassifyEmail("c1")
  \/ DraftReply("c1")
  \/ Send
  \/ \E r \in DecodeResponses : DoResponds(r)
  \/ Return

SpecDecode == Init /\ [][NextDecode]_vars

\* the three operations of the OpenAIClient against any upstream
OpenAIResponses ==
  Responses \cup {Response(200, ChatBody(<<<<Nbsp, DocOne>>>>)),
                  Response(200, ChatBody(<<<<Newline, DocTwo, Space>>>>))}

NextOpenAI ==
  \/ \E o \in {"summarize", "classify", "draft"}, c \in EmailContents : OpenAICall(o, c)
  \/ OpenAISend
  \/ OpenAIDoFails
  \/ \E r \in OpenAIResponses : OpenAIDoResponds(r)
  \/ Return

SpecOpenAI == Init /\ [][NextOpenAI]_vars

\* POST /summarize and POST /draft, one request after another
ContentRequests ==
  {Request(m, <<"text/plain">>, b) :
     m \in Methods,
     b \in {RequestBody("unreadable", <<>>)} \cup {RawBody(c) : c \in EmailContents \cup {" "}}}

ContentResponses ==
  {Response(200, ChatBody(<<<<Text>>>>)), Response(200, ChatBody(<<>>)),
   Response(429, ErrorBody), Response(400, TextBody), Response(503, TextBody)}

NextContent ==
  \/ \E req \in ContentRequests : SummarizeHandler(req)
  \/ \E req \in ContentRequests : DraftHandler(req)
  \/ Send
  \/ DoFails
  \/ \E r \in ContentResponses : DoResponds(r)
  \/ WakeUp
  \/ SummarizeRespond
  \/ DraftRespond
  \/ Return
  \/ RememberResponse

SpecContent == Init /\ [][NextContent]_vars

\* the four operations under fairness: the program goes on, time.Sleep
\* returns, and HTTPClient.Do returns a response or an error (at the latest
\* when the timeout of the http.Client expires)
LiveBatches == UNION {[1..n -> {Email("a", "c1")}] : n \in 0..MaxBatch}

LiveResponses ==
  {Response(200, ChatBody(<<<<DocOne>>>>)), Response(400, TextBody),
   Response(503, TextBody)}

DoReturns == DoFails \/ \E r \in LiveResponses : DoResponds(r)

NextLive ==
  \/ SummarizeEmail("c1")
  \/ ClassifyEmail("c1")
  \/ DraftReply("c1")
  \/ \E es \in LiveBatches : ClassifyEmailsBatch(es)
  \/ Send
  \/ DoFails
  \/ \E r \in LiveResponses : DoResponds(r)
  \/ WakeUp
  \/ Return

SpecLive ==
  /\ Init
  /\ [][NextLive]_vars
  /\ WF_vars(Send)
  /\ WF_vars(WakeUp)
  /\ WF_vars(DoReturns)

\* the batch classifier with its requests counted
CountEmails == {Email("a", "c1"), Email("b", "c2")}

CountBatches == UNION {[1..n -> CountEmails] : n \in 0..MaxBatch}

CountResponses ==
  {Response(200, ChatBody(<<<<DocOne>>>>)), Response(400, TextBody),
   Response(503, TextBody)}

NextCount ==
  \/ \E es \in CountBatches : ClassifyEmailsBatch(es)
  \/ CountedSend
  \/ DoFails
  \/ \E r \in CountResponses : DoResponds(r)
  \/ WakeUp
  \/ Return

SpecCount == Init /\ [][NextCount]_vars

\* any sequence of calls of the four operations, one of them remembered
TwiceResponses ==
  {Response(200, ChatBody(<<<<DocOne>>>>)),
   Response(200, ChatBody(<<<<Space, Text, Newline>>>>)),
   Response(200, ChatBody(<<<<DocEmpty>>>>)),
   Response(200, ChatBodyFinish(<<<<DocOne>>, <<Text>>>>, "length")),
   Response(400, ErrorBody), Response(503, TextBody)}

OneEmailBatches == {<<e>> : e \in BatchEmails}

NextTwice ==
  \/ \E c \in EmailContents : SummarizeEmail(c)
  \/ \E c \in EmailContents : ClassifyEmail(c)
  \/ \E c \in EmailContents : DraftReply(c)
  \/ \E es \in OneEmailBatches : ClassifyEmailsBatch(es)
  \/ Send
  \/ DoFails
  \/ \E r \in TwiceResponses : DoResponds(r)
  \/ WakeUp
  \/ Return
  \/ Remember

SpecTwice == Init /\ [][NextTwice]_vars

\* the HTTP server's ClassifyHandler over the client
NextHandler ==
  \/ \E req \in HandlerRequests : ClassifyHandler(req)
  \/ Send
  \/ DoFails
  \/ \E r \in Upstream(emails) : DoResponds(r)
  \/ WakeUp
  \/ ClassifyRespond
  \/ Return

SpecHandler == Init /\ [][NextHandler]_vars

\* ------------------------------------------------ reading the log
Sends == SelectSeq(log, LAMBDA e : e.t = "send")

Answers == SelectSeq(log, LAMBDA e : e.t \in {"recv", "fail"})

Sleeps == SelectSeq(log, LAMBDA e : e.t = "sleep")

NumCalls == Len(Sends)

IsTransportFailure(e) == e.t = "fail"

Is5xx(e) == e.t = "recv" /\ e.n \in 500..599

IsOther(e) == e.t = "recv" /\ e.n \notin 500..599

RECURSIVE SumOf(_)
SumOf(es) == IF es = <<>> THEN 0 ELSE Head(es).n + SumOf(Tail(es))

SingleOp == op \in {"summarize", "classify", "draft"}

\* ------------------------------------------------------------ claims

\* C1: an operation makes at most 4 outbound attempts; every attempt after
\* the first follows an attempt that ended in a transport failure or a 5xx
\* status, and both kinds of failure draw on the same budget of 3 retries.
C1_AtMostFourAttempts ==
  SingleOp =>
    /\ NumCalls <= 4
    /\ Len(Answers) \in {NumCalls - 1, NumCalls}
    /\ \A k \in 1..Len(Answers) :
         k < NumCalls => IsTransportFailure(Answers[k]) \/ Is5xx(Answers[k])
    /\ Cardinality({k \in 1..Len(Answers) :
                      IsTransportFailure(Answers[k]) /\ k < NumCalls})
         + Cardinality({k \in 1..Len(Answers) : Is5xx(Answers[k]) /\ k < NumCalls})
         <= 3

\* a fourth attempt made after a transport failure, a 5xx and another
\* transport failure
C1_Witness ==
  /\ SingleOp
  /\ NumCalls = 4
  /\ Len(Answers) >= 3
  /\ IsTransportFailure(Answers[1])
  /\ Is5xx(Answers[2])
  /\ IsTransportFailure(Answers[3])

\* C4: the sleep before attempt k (k = 1, 2, 3) lasts 2^(k-1) seconds: 1s,
\* 2s, 4s in that order; nothing is slept before the first attempt; the
\* value does not depend on the kind of failure; the total is at most 7s.
C4_BackoffSchedule ==
  SingleOp =>
    /\ [k \in 1..Len(Sleeps) |-> Sleeps[k].n] = SubSeq(<<1, 2, 4>>, 1, Len(Sleeps))
    /\ SumOf(Sleeps) <= 7
    /\ \A i \in 1..Len(log) :
         /\ (log[i].t = "send" /\ i > 1) => log[i - 1].t = "sleep"
         /\ log[i].t = "sleep" =>
              /\ i > 1
              /\ log[i - 1].t \in {"recv", "fail"}
              /\ i < Len(log) => log[i + 1].t = "send"
    /\ log # <<>> => log[1].t = "send"
    /\ Len(Sleeps) \in {NumCalls - 1, NumCalls}
    /\ NumCalls = 0 => Len(Sleeps) = 0

\* three sleeps of 1s, 2s and 4s, after failures of both kinds
C4_Witness ==
  /\ SingleOp
  /\ [k \in 1..Len(Sleeps) |-> Sleeps[k].n] = <<1, 2, 4>>
  /\ Is5xx(Answers[1])
  /\ IsTransportFailure(Answers[2])
  /\ NumCalls = 4

\* C5: a response whose status is neither 200 nor 5xx is never retried: no
\* outbound call follows it, and when it answers the first attempt exactly
\* one call is made and the operation returns an error.
C5_NoRetryOnClientError ==
  SingleOp =>
    /\ \A k \in 1..Len(Answers) :
         IsOther(Answers[k]) =>
           /\ k = Len(Answers)
           /\ NumCalls = k
           /\ pc = "done"
    /\ (Answers # <<>> /\ IsOther(Answers[1]) /\ Answers[1].n # 200) =>
         /\ NumCalls = 1
         /\ pc = "done"
         /\ err # NilError
         /\ result = NilResult

\* a 429 answers the first attempt and ends the operation
C5_Witness ==
  /\ SingleOp
  /\ Answers = <<Event("recv", 429)>>
  /\ NumCalls = 1
  /\ pc = "done"
  /\ err # NilError

AllAnswers5xx == Answers # <<>> /\ \A k \in 1..Len(Answers) : Is5xx(Answers[k])

\* C6: when every attempt of an operation is answered 5xx, the operation
\* ends after exactly 4 attempts, with an error and without a result.
C6_ExhaustedBy5xx ==
  SingleOp =>
    /\ (AllAnswers5xx /\ pc = "done") =>
         /\ NumCalls = 4
         /\ Len(Answers) = 4
         /\ err # NilError
         /\ result = NilResult
    /\ (AllAnswers5xx /\ Len(Answers) = 4) => pc = "done"

\* four 5xx answers, of both statuses, and the operation has returned
C6_Witness ==
  /\ SingleOp
  /\ pc = "done"
  /\ Len(Answers) = 4
  /\ AllAnswers5xx
  /\ Answers[1].n = 500
  /\ Answers[4].n = 503
  /\ resp.body.kind = "object"
  /\ err # NilError

\* ---------------------------------------- what a reply should decode to
\* t is c without its leading and trailing whitespace, nothing else changed
IsTrimOf(t, c) ==
  \E i, j \in 0..Len(c) :
    /\ i + j <= Len(c)
    /\ t = SubSeq(c, i + 1, Len(c) - j)
    /\ \A k \in 1..i : IsSpace(c[k])
    /\ \A k \in (Len(c) - j + 1)..Len(c) : IsSpace(c[k])
    /\ t # <<>> => ~IsSpace(t[1]) /\ ~IsSpace(t[Len(t)])

\* s is one JSON labels document d with optional whitespace around it
IsDocument(s, d) ==
  \E i \in 1..Len(s) : s[i] = d /\ \A k \in 1..Len(s) : k # i => IsSpace(s[k])

\* c is the text J wrapped in a fence that carries the language tag `tag`
IsFenced(c, tag, J) ==
  c = <<Fence>> \o tag \o J \o <<Fence>>

FirstContent == resp.body.choices[1]

Has200WithChoice ==
  resp.status = 200 /\ resp.body.kind = "object" /\ resp.body.choices # <<>>

\* C7: a 500 answer to the first attempt and a valid 200 answer to the
\* second make the operation succeed with the result decoded from the second
\* response, after exactly two attempts and one backoff of 1 second.
C7_RetryThenSuccess ==
  (SingleOp /\ Len(Answers) >= 2 /\ Answers[1] = Event("recv", 500)
     /\ Answers[2] = Event("recv", 200)) =>
    /\ pc = "done"
    /\ log = <<Event("send", 0), Event("recv", 500), Event("sleep", 1),
               Event("send", 1), Event("recv", 200)>>
    /\ resp.status = 200
    /\ (Has200WithChoice /\ op \in {"summarize", "draft"}) =>
         /\ err = NilError
         /\ result.kind = (IF op = "summarize" THEN "summary" ELSE "draft")
         /\ IsTrimOf(result.text, FirstContent)
    /\ (Has200WithChoice /\ op = "classify") =>
         \A d \in Docs :
           IsDocument(FirstContent, d) =>
             err = NilError /\ result = ClassifyResponse(DocLabels(d))

\* a classification that succeeds on the second attempt
C7_Witness ==
  /\ op = "classify"
  /\ pc = "done"
  /\ Len(Answers) = 2
  /\ Answers[1] = Event("recv", 500)
  /\ Answers[2] = Event("recv", 200)
  /\ Has200WithChoice
  /\ FirstContent = <<DocTwo>>
  /\ err = NilError
  /\ Len(result.labels.items) = 2

\* C8: for a 200 response with at least one choice SummarizeEmail and
\* DraftReply succeed, and the Summary or Draft is the content of the first
\* choice without its leading and trailing whitespace; content that is all
\* whitespace gives a success with the empty string.
C8_TrimmedContent ==
  (pc = "done" /\ op \in {"summarize", "draft"} /\ Has200WithChoice) =>
    /\ err = NilError
    /\ result.kind = (IF op = "summarize" THEN "summary" ELSE "draft")
    /\ IsTrimOf(result.text, FirstContent)
    /\ (\A k \in 1..Len(FirstContent) : IsSpace(FirstContent[k])) => result.text = <<>>

\* whitespace on both sides is removed, whitespace inside is kept
C8_Witness ==
  /\ pc = "done"
  /\ op = "summarize"
  /\ Has200WithChoice
  /\ FirstContent = <<Newline, Text, Newline, Fence, Newline>>
  /\ result = SummaryResponse(<<Text, Newline, Fence>>)
  /\ err = NilError

CountFences(s) == Len(SelectSeq(s, LAMBDA t : t = Fence))

\* the language tags a fence may carry: none, json, another language, and
\* a language whose name starts with json
NoTag == <<>>
JsonOnly == <<JsonTag>>
OtherTags == {<<Text>>, <<JsonTag, Text>>}

\* the first token of c that is not whitespace is a fence
HasLeadingFence(c) ==
  \E k \in 1..Len(c) : c[k] = Fence /\ \A m \in 1..(k - 1) : IsSpace(c[m])

\* J wrapped in a fence with one of the tags decodes to the labels of J
FencedDecodesLikeUnfenced(tags) ==
  (pc = "done" /\ op = "classify" /\ Has200WithChoice) =>
    \A tag \in tags : \A d \in Docs : \A a, b \in 0..Len(FirstContent) :
      LET w == SubSeq(FirstContent, a + 1, Len(FirstContent) - b)
          J == SubSeq(w, Len(tag) + 2, Len(w) - 1)
      IN  (/\ a + b <= Len(FirstContent)
           /\ Len(w) >= Len(tag) + 3
           /\ IsFenced(w, tag, J)
           /\ IsDocument(J, d)
           /\ IsTrimOf(w, FirstContent)) =>
            err = NilError /\ result = ClassifyResponse(DocLabels(d))

\* at most one leading and one trailing fence are removed, and content
\* without a leading fence reaches the decoder with only its surrounding
\* whitespace removed
NarrowNormalization ==
  (pc = "done" /\ op = "classify" /\ Has200WithChoice) =>
    /\ jsonIn # NoInput
    /\ CountFences(FirstContent) - CountFences(jsonIn) <= 2
    /\ \E i, j \in 0..Len(FirstContent) : jsonIn = SubSeq(FirstContent, i + 1, j)
    /\ ~HasLeadingFence(FirstContent) => IsTrimOf(jsonIn, FirstContent)

\* C9 as stated: a labels document wrapped in a fence, with a language tag
\* or without one, decodes to the same labels as the document unfenced.
C9_AnyLanguageTag ==
  FencedDecodesLikeUnfenced({NoTag, JsonOnly} \cup OtherTags) /\ NarrowNormalization

\* C9 as amended: a labels document wrapped in a fence that carries the tag
\* json or no tag decodes to the same labels as the document unfenced; at
\* most one leading and one trailing fence are removed; content without a
\* leading fence is handed to the decoder with only its surrounding
\* whitespace removed.
C9_JsonTagOrNone ==
  FencedDecodesLikeUnfenced({NoTag, JsonOnly}) /\ NarrowNormalization

\* a document in a fence tagged json, on lines of its own, is decoded
C9_Witness ==
  /\ pc = "done"
  /\ op = "classify"
  /\ Has200WithChoice
  /\ FirstContent = <<Fence, JsonTag, Newline, DocOne, Fence>>
  /\ jsonIn = <<DocOne>>
  /\ err = NilError
  /\ result = ClassifyResponse(LabelList(<<Label("work", 9)>>))

\* ---------------------------------------------------------- the batch
InBatch == op = "batch"

\* the email whose result was stored last, and the reply it got (resp is
\* the response makeRequest returned for it, or no response at all)
LastIndex == idx - 1

\* the reply to the last email is a 200 whose first choice is document d
LastReplyIs(d) == Has200WithChoice /\ IsDocument(FirstContent, d)

LastReplyFailed == ~\E d \in Docs : LastReplyIs(d)

\* C2: the batch returns exactly one result per input email, in input
\* order: as many results as emails, and result i carries the id of email
\* i, also when ids repeat.
C2_OneResultPerEmail ==
  (InBatch /\ pc = "done") =>
    /\ result.kind = "batch"
    /\ Len(result.list) = Len(emails)
    /\ \A i \in 1..Len(emails) : result.list[i].ID = emails[i].ID

\* three emails, two of them with the same id, the ids in input order
C2_Witness ==
  /\ InBatch
  /\ pc = "done"
  /\ Len(emails) = 3
  /\ <<emails[1].ID, emails[2].ID, emails[3].ID>> = <<"a", "b", "a">>
  /\ <<result.list[1].ID, result.list[2].ID, result.list[3].ID>> = <<"a", "b", "a">>
  /\ emails[1].Content # emails[3].Content

\* the state part of C3
BatchNeverFails ==
  /\ (InBatch /\ pc = "done") =>
       /\ err = NilError
       /\ result.kind = "batch"
       /\ LastIndex = Len(emails)
       /\ result.list = results
  /\ (InBatch /\ LastIndex >= 1) =>
       /\ results[LastIndex].ID = emails[LastIndex].ID
       /\ LastReplyFailed => results[LastIndex].Labels = LabelList(<<>>)
       /\ \A d \in Docs : LastReplyIs(d) => results[LastIndex].Labels = DocLabels(d)
  /\ (InBatch /\ pc # "done") => LastIndex < Len(emails)

\* the step part of C3: a stored result is never changed afterwards
StoredResultsKept ==
  (InBatch /\ pc # "done") => \A j \in 1..LastIndex : results'[j] = results[j]

\* C3: the batch never returns an error and never stops early: an email
\* whose classification fails gets the result {id, empty list}, every later
\* email is still classified, and every other result holds the labels of
\* its own email.
C3_PartialFailure == []BatchNeverFails /\ [][StoredResultsKept]_vars

\* three emails, the second failed, the first and the third populated
C3_Witness ==
  /\ InBatch
  /\ pc = "done"
  /\ Len(emails) = 3
  /\ err = NilError
  /\ result.list[1].Labels = DocLabels(DocOne)
  /\ result.list[2] = [ID |-> emails[2].ID, Labels |-> LabelList(<<>>)]
  /\ result.list[3].Labels = DocLabels(DocTwo)
  /\ LastReplyIs(DocTwo)

\* C10: every result of a batch holds exactly one label, the one with the
\* highest score, whatever number of labels the model returned.
C10_ExactlyOneLabel ==
  (InBatch /\ LastIndex >= 1) =>
    \A d \in Docs :
      (LastReplyIs(d) /\ Len(DocLabels(d).items) >= 1) =>
        /\ Len(results[LastIndex].Labels.items) = 1
        /\ \A l \in 1..Len(DocLabels(d).items) :
             DocLabels(d).items[l].Score <= results[LastIndex].Labels.items[1].Score

\* ------------------------------------------------------------- C11
\* the request got through the method, Content-Type, read and parse steps
Parsed ==
  /\ request.method = "POST"
  /\ IsJSONContentType(request.contentType)
  /\ request.body.kind = "json"

\* the client did nothing since the request came in
NoOutboundCall ==
  /\ pc = "idle"
  /\ op = "none"
  /\ log = <<>>
  /\ reqs = <<>>
  /\ inflight = 0
  /\ results = <<>>

\* C11: ClassifyHandler calls ClassifyEmailsBatch only with between 1 and
\* MaxEmails (100) emails; a parsed request with 0 emails or with more than
\* 100 emails is answered with status 400 and the client makes no outbound
\* call for it.
C11_BatchSizeLimits ==
  /\ (handler # "none" /\ op = "batch") =>
       (Len(emails) >= 1 /\ Len(emails) <= MaxEmails /\ emails = request.body.emails)
  /\ (handler = "responded" /\ Parsed
        /\ (Len(request.body.emails) = 0 \/ Len(request.body.emails) > MaxEmails)) =>
       (response.status = 400 /\ NoOutboundCall)

C11_Witness ==
  /\ handler = "responded"
  /\ Parsed
  /\ Len(request.body.emails) = MaxEmails + 1
  /\ response.status = 400
  /\ response.body.message.text = "Maximum 100 emails allowed per request"
  /\ NoOutboundCall

\* ------------------------------------------------------------- C12
IsBlank(str) == str \in BlankStrings

Offending(email) == IsBlank(email.ID) \/ IsBlank(email.Content)

HasOffending(es) == \E i \in 1..Len(es) : Offending(es[i])

\* the position (from 1) of the first offending email
LowestOffending(es) ==
  CHOOSE i \in 1..Len(es) :
    Offending(es[i]) /\ \A j \in 1..(i - 1) : ~Offending(es[j])

WithinLimits(es) == Len(es) >= 1 /\ Len(es) <= MaxEmails

\* a rejected batch names its lowest offending index, the id before the
\* content, and the client has done nothing
RejectedAsAWhole ==
  (handler = "responded" /\ Parsed /\ WithinLimits(request.body.emails)
     /\ HasOffending(request.body.emails)) =>
    LET es == request.body.emails
        i == LowestOffending(es)
    IN  /\ response.status = 400
        /\ response.body.kind = "error"
        /\ response.body.message.index = i - 1
        /\ response.body.message.text =
             IF IsBlank(es[i].ID)
             THEN "Email ID is required for email at index"
             ELSE "Email content is required for email at index"
        /\ NoOutboundCall

\* the client works on a batch only if every email of it is valid
ProcessedOnlyIfAllValid ==
  (handler # "none" /\ op = "batch") => ~HasOffending(emails)

\* the step that rejects a request leaves the client alone
RejectingStepIsLocal ==
  (handler = "none" /\ handler' = "responded") =>
    UNCHANGED <<client, op, arg, pc, attempt, bodyBytes, log, reqs, resp,
                jsonIn, result, err, emails, results, idx, inflight>>

Ids(es) == [i \in 1..Len(es) |-> es[i].ID]

LabelsOf(rs) == [i \in 1..Len(rs) |-> rs[i].Labels]

\* the 200 response as a function of the ids and of the labels the upstream
\* replies decoded to, and of nothing else
ResponseFrom(ids, labels) ==
  [wrote |-> TRUE, status |-> 200,
   header |-> [ContentType |-> "application/json", ContentEncoding |-> "gzip"],
   sent |-> [ContentType |-> "application/json", ContentEncoding |-> "gzip"],
   body |-> [kind |-> "results", gzip |-> TRUE, error |-> "", message |-> NoMessage,
             results |-> [i \in 1..Len(ids) |-> [ID |-> ids[i], Labels |-> labels[i]]]]]

Contents(es) == {es[i].Content : i \in 1..Len(es)}

\* C13: the batch response carries no email body content: each result holds
\* the id and the labels only, so two batches with the same ids and the
\* same upstream replies but different contents get identical responses
\* (the response is a function of the ids and of the decoded labels); an
\* error response holds a fixed message and an index only.
C13_NoContentInResponse ==
  (handler = "responded" /\ op = "batch") =>
    /\ response = ResponseFrom(Ids(request.body.emails), LabelsOf(results))
    /\ \A i \in 1..Len(response.body.results) :
         /\ DOMAIN response.body.results[i] = {"ID", "Labels"}
         /\ response.body.results[i].Labels \in
              {LabelList(<<>>), NilLabels} \cup {DocLabels(d) : d \in Docs}

\* one batch holds the same id twice with different contents and the same
\* upstream reply: the two results are identical
C13_Witness ==
  /\ handler = "responded"
  /\ op = "batch"
  /\ Len(emails) = 2
  /\ emails[1].ID = emails[2].ID
  /\ emails[1].Content # emails[2].Content
  /\ results[1].Labels = DocLabels(DocOne)
  /\ results[2].Labels = DocLabels(DocOne)
  /\ response.status = 200
  /\ response.body.results[1] = response.body.results[2]

\* ------------------------------------------------------------- C14
\* the client as NewDeepseekClient built it
ConstructedClient ==
  [BaseURL |-> "https://api.deepseek.com", APIKey |-> "key", Model |-> "deepseek-chat"]

AnswersOf(lg) == SelectSeq(lg, LAMBDA e : e.t \in {"recv", "fail"})

\* the finished call got the input of the remembered call and the upstream
\* answered it the same way
SameCallAgain ==
  /\ pc = "done"
  /\ earlier # NoCall
  /\ op = earlier.op
  /\ arg = earlier.arg
  /\ emails = earlier.emails
  /\ AnswersOf(log) = AnswersOf(earlier.log)
  /\ resp = earlier.resp

SameResultAgain ==
  SameCallAgain =>
    (result = earlier.result /\ err = earlier.err /\ log = earlier.log)

\* C14: the client retains no state between calls: no operation modifies
\* BaseURL, APIKey or Model, and an operation called again with the input
\* of an earlier call against an upstream that answers as it did then
\* returns the result and error of the earlier call, whatever calls
\* happened in between.
C14_NoStateBetweenCalls ==
  /\ [][client' = client]_vars
  /\ [](client = ConstructedClient)
  /\ []SameResultAgain

C14_Witness ==
  /\ SameCallAgain
  /\ op = "summarize"
  /\ Len(AnswersOf(log)) = 2
  /\ result = SummaryResponse(<<Text>>)
  /\ result = earlier.result
  /\ client = ConstructedClient

\* ------------------------------------------------------------- C15
\* makeRequest handed a response to the operation
GotResponse == Len(Answers) >= 1 /\ Answers[Len(Answers)].t = "recv"

EndedByNon200 ==
  pc = "done" /\ SingleOp /\ GotResponse /\ resp.status # StatusOK

\* json.Unmarshal(body, &APIError{}) succeeds
DecodesAsAPIError(b) == b.kind \notin {"empty", "text", "mistyped"}

ExhaustedBy5xx ==
  /\ pc = "done"
  /\ SingleOp
  /\ Len(Answers) = MaxRetries + 1
  /\ AllAnswers5xx

\* C16: an upstream 5xx that persists until the attempt budget is exhausted
\* is surfaced with status and body: the error returned after the last 5xx
\* carries that response's HTTP status code and its body, for every body,
\* a JSON object included.
C16_StatusAndBodySurfaced ==
  ExhaustedBy5xx =>
    /\ err # NilError
    /\ err.status = resp.status
    /\ err.body = resp.body

\* ------------------------------------------------------------- C17
\* a 200 answer is the last event of the call: nothing is sent after it
A200EndsTheCall ==
  \A i \in 1..Len(log) :
    log[i] = Event("recv", 200) => (i = Len(log) /\ pc = "done")

EndedBy200 == pc = "done" /\ SingleOp /\ GotResponse /\ resp.status = StatusOK

NoChoicesIsAnError ==
  (EndedBy200 /\ resp.body.kind \in {"object", "mistyped"} /\ resp.body.choices = <<>>) =>
    (err.kind = "nochoices" /\ result = NilResult)

\* ClassifyEmail got a 200 with a choice and the content did not decode
ClassifyContentRejected ==
  /\ EndedBy200
  /\ op = "classify"
  /\ Has200WithChoice
  /\ ~JsonLabels(jsonIn).ok

\* C17 as stated: a 200 always ends the operation without a further
\* attempt: a 200 with zero choices yields the "no choices" error, and for
\* ClassifyEmail a 200 whose content fails JSON decoding after
\* fence-stripping yields an error carrying the raw content (the content as
\* the code logs it, before the fence is stripped); neither is retried.
C17_RawContentCarried ==
  /\ A200EndsTheCall
  /\ NoChoicesIsAnError
  /\ ClassifyContentRejected =>
       /\ err.kind = "invalidjson"
       /\ result = NilResult
       /\ err.content = TrimSpace(FirstContent)

\* C17 as amended: the error carries the content as it was handed to the
\* decoder, that is trimmed and with the fence stripped.
C17_DecoderInputCarried ==
  /\ A200EndsTheCall
  /\ NoChoicesIsAnError
  /\ ClassifyContentRejected =>
       /\ err.kind = "invalidjson"
       /\ result = NilResult
       /\ err.content = jsonIn
       /\ jsonIn = StripFence(TrimSpace(FirstContent))

C17_Witness ==
  /\ ClassifyContentRejected
  /\ FirstContent = <<Fence, JsonTag, Newline, Text, Newline, Fence>>
  /\ err.kind = "invalidjson"
  /\ err.content = <<Text>>
  /\ NumCalls = 1

\* ------------------------------------------------------------- C18
\* the request the operation in progress is to send, from its argument
IntendedRequest ==
  [method |-> "POST",
   url |-> <<client.BaseURL, "/v1/chat/completions">>,
   body |-> [model |-> client.Model, system |-> SystemPrompt(Kind),
             user |-> <<UserPrefix(Kind), arg>>],
   contentType |-> "application/json",
   authorization |-> <<"Bearer", client.APIKey>>]

\* C18: every attempt of one operation sends the same request: the body is
\* read once before the first attempt, and each of the up to 4 attempts
\* sends a body identical to it (never an empty or partly consumed one),
\* with the same method, URL, Content-Type and Authorization header.
C18_SameRequestEachAttempt ==
  SingleOp =>
    /\ Len(reqs) = NumCalls
    /\ Len(reqs) <= MaxRetries + 1
    /\ bodyBytes = IntendedRequest.body
    /\ \A k \in 1..Len(reqs) :
         /\ reqs[k] = reqs[1]
         /\ reqs[k] = IntendedRequest
         /\ reqs[k].body = bodyBytes
         /\ reqs[k].body # ConsumedBody

C18_Witness ==
  /\ SingleOp
  /\ pc = "done"
  /\ Len(reqs) = 4
  /\ \A k \in 1..4 : reqs[k] = IntendedRequest
  /\ arg = "c2"

\* ------------------------------------------------------------- C19
\* the documents that decode successfully to zero labels
ZeroLabelDocs == {d \in Docs : Len(DocLabels(d).items) = 0}

\* the last reply is a 200 whose content decodes to zero labels
DecodedZeroLabels ==
  /\ pc = "done"
  /\ GotResponse
  /\ \E d \in ZeroLabelDocs : LastReplyIs(d)

\* C19: when the classification content decodes successfully but holds zero
\* labels, ClassifyEmail still returns success (a ClassifyResponse without
\* labels and a nil error); in the batch that email's result has zero labels.
C19_ZeroLabelsIsSuccess ==
  /\ (DecodedZeroLabels /\ op = "classify") =>
       /\ err = NilError
       /\ result.kind = "classify"
       /\ Len(result.labels.items) = 0
  /\ (DecodedZeroLabels /\ op = "batch") =>
       /\ err = NilError
       /\ results[LastIndex].ID = emails[LastIndex].ID
       /\ Len(results[LastIndex].Labels.items) = 0

C19_Witness ==
  /\ DecodedZeroLabels
  /\ op = "classify"
  /\ FirstContent = <<DocEmpty>>
  /\ err = NilError
  /\ result = ClassifyResponse(LabelList(<<>>))

\* ------------------------------------------------------------- C20
\* the batch is between its first request and its return
BatchAtWork == InBatch /\ pc \in {"send", "wait", "sleep"}

\* at most one request is with HTTPClient.Do, and only while the call waits
OneCallInFlight ==
  /\ inflight \in {0, 1}
  /\ inflight = 1 <=> pc = "wait"

\* while email idx is worked on, every earlier email has its result and no
\* later email has been touched; the requests sent are those of email idx
OneEmailAtATime ==
  BatchAtWork =>
    /\ idx \in 1..Len(emails)
    /\ arg = emails[idx].Content
    /\ \A j \in 1..(idx - 1) : results[j].ID = emails[j].ID
    /\ \A j \in idx..Len(emails) : results[j] = ZeroResult
    /\ \A k \in 1..Len(reqs) : reqs[k].body.user[2] = emails[idx].Content

\* a request starts only when none is in flight and no sleep is pending,
\* and the first one for an email only after the email before it is done
StartsAfterThePrevious ==
  (InBatch /\ inflight' > inflight) =>
    /\ inflight = 0
    /\ pc = "send"
    /\ idx' = idx
    /\ (attempt = 0 /\ idx > 1) => results[idx - 1].ID = emails[idx - 1].ID

\* C20: batch classification is strictly sequential: at most one outbound
\* HTTP call is in flight at any time, and the first attempt for email i+1
\* starts only after the last attempt (retries and backoff included) for
\* email i has finished.
C20_StrictlySequential ==
  /\ []OneCallInFlight
  /\ []OneEmailAtATime
  /\ [][StartsAfterThePrevious]_vars

\* the second email's first request is in flight after the first email
\* used up its four attempts
C20_Witness ==
  /\ BatchAtWork
  /\ Len(emails) = 2
  /\ idx = 2
  /\ pc = "wait"
  /\ attempt = 0
  /\ inflight = 1
  /\ resp = NoResponse
  /\ results[1] = [ID |-> emails[1].ID, Labels |-> LabelList(<<>>)]
  /\ results[2] = ZeroResult

\* ------------------------------------------------------------- C21
BackoffPerEmail == 1 + 2 + 4

WorstCasePerEmail == 4 * Timeout + BackoffPerEmail

\* the seconds the current email has taken at most: every attempt up to
\* the timeout, and the sleeps
SecondsAtMost == Timeout * NumCalls + SumOf(Sleeps)

\* per email: at most 4 attempts, at most 7 seconds of backoff, 127 seconds
PerEmailBounds ==
  InBatch =>
    /\ NumCalls <= 4
    /\ SumOf(Sleeps) <= BackoffPerEmail
    /\ SecondsAtMost <= WorstCasePerEmail
    /\ WorstCasePerEmail = 127

\* the requests of the emails that are done: one to four for each
TotalBounds ==
  /\ BatchAtWork =>
       /\ sent - NumCalls >= idx - 1
       /\ sent - NumCalls <= 4 * (idx - 1)
  /\ (InBatch /\ pc = "done") =>
       /\ sent >= Len(emails)
       /\ sent <= 4 * Len(emails)

\* an email is left only after a request was sent for it
AttemptBeforeNextEmail == (InBatch /\ idx' = idx + 1) => NumCalls >= 1

\* C21: for a batch of N emails ClassifyEmailsBatch makes at least one
\* outbound attempt for every email and at most 4 per email, so between N
\* and 4N attempts in total, with at most 7 seconds of backoff per email;
\* with each attempt bounded by the 30-second timeout the worst case for
\* one email is 4*30 + (1+2+4) = 127 seconds.
C21_AttemptsAndSeconds ==
  /\ []PerEmailBounds
  /\ []TotalBounds
  /\ [][AttemptBeforeNextEmail]_vars

\* a batch of two emails that took 8 requests, the second email at 127 s
C21_Witness ==
  /\ InBatch
  /\ pc = "done"
  /\ Len(emails) = 2
  /\ sent = 8
  /\ SumOf(Sleeps) = 7
  /\ SecondsAtMost = 127

\* ------------------------------------------------------------- C22
\* an operation has been called and has not returned
Running == pc \in {"send", "wait", "sleep"}

\* the operation has returned: a result or an error for the three single
\* operations, the results of every email for the batch
HasReturned ==
  /\ pc = "done"
  /\ SingleOp => (result # NilResult \/ err # NilError)
  /\ InBatch => (result.kind = "batch" /\ Len(result.list) = Len(emails))

\* C22: every client operation terminates: provided each outbound HTTP call
\* completes with a response or a failure, SummarizeEmail, ClassifyEmail
\* and DraftReply eventually return a result or an error for every upstream
\* behaviour, and ClassifyEmailsBatch eventually returns for every finite
\* batch.
C22_EveryOperationReturns == Running ~> HasReturned

\* a batch of two emails has returned after every call failed
C22_Witness ==
  /\ HasReturned
  /\ InBatch
  /\ Len(emails) = 2
  /\ resp = NoResponse
  /\ Len(Answers) = 4

\* ------------------------------------------------------------- C23
\* the type of the result each operation returns
ResultKind ==
  CASE op = "summarize" -> "summary"
    [] op = "classify" -> "classify"
    [] OTHER -> "draft"

ResultOnly == result # NilResult /\ result.kind = ResultKind /\ err = NilError

ErrorOnly == result = NilResult /\ err # NilError

\* C23: every call of SummarizeEmail, ClassifyEmail or DraftReply returns
\* exactly one of a typed result and an error: either the result is non-nil
\* and the error is nil, or the result is nil and the error is non-nil,
\* never both and never neither.
C23_ResultXorError ==
  (pc = "done" /\ SingleOp) =>
    /\ ResultOnly \/ ErrorOnly
    /\ ~(ResultOnly /\ ErrorOnly)
    /\ ResultOnly <=> (GotResponse /\ resp.status = StatusOK /\ err = NilError)

C23_Witness ==
  /\ pc = "done"
  /\ op = "draft"
  /\ resp = Response(200, ChatBody(<<<<>>>>))
  /\ ResultOnly
  /\ result = DraftResponse(<<>>)

\* ------------------------------------------------------------- C24
Is200WithChoice(r) ==
  r.status = 200 /\ r.body.kind = "object" /\ r.body.choices # <<>>

\* the finished call and the remembered call had the same input and ended
\* with 200 responses whose first choices hold the same content
SameFirstChoice ==
  /\ pc = "done"
  /\ earlier # NoCall
  /\ op = earlier.op
  /\ arg = earlier.arg
  /\ emails = earlier.emails
  /\ Is200WithChoice(resp)
  /\ Is200WithChoice(earlier.resp)
  /\ resp.body.choices[1] = earlier.resp.body.choices[1]

\* C24: only the first choice of the upstream reply is consumed: for two
\* 200 responses whose choices[0].message.content are equal, every
\* operation returns the same result, whatever the number and contents of
\* the remaining choices and whatever the finish_reason.
C24_OnlyFirstChoice ==
  SameFirstChoice => (result = earlier.result /\ err = earlier.err)

C24_Witness ==
  /\ SameFirstChoice
  /\ op = "summarize"
  /\ Len(resp.body.choices) = 2
  /\ Len(earlier.resp.body.choices) = 1
  /\ resp.body.finish # earlier.resp.body.finish
  /\ result = earlier.result
  /\ result = SummaryResponse(<<DocOne>>)

\* ------------------------------------------------------------- C25
\* C25: every result of a batch classification that has no labels has a
\* present labels list (an empty list, never a null one), both when the
\* email's classification failed and when the model's reply decoded
\* without labels (model content {} or {"labels":null}).
C25_LabelsPresent ==
  InBatch =>
    \A j \in 1..LastIndex :
      Len(results[j].Labels.items) = 0 => ~results[j].Labels.isNil

\* ------------------------------------------------------------- C26
\* the handler has answered a request that passed validation
AnsweredValidBatch == handler = "responded" /\ op = "batch"

\* C26: a batch classify request that passes validation is never answered
\* with status 500 because of upstream failures: ClassifyEmailsBatch always
\* returns a nil error, so the handler's "Failed to classify emails" branch
\* is not reached and the response is a 200 with one result per email, also
\* when every upstream call fails.
C26_NoServerErrorFromUpstream ==
  /\ (handler # "none" /\ op = "batch" /\ pc = "done") => err = NilError
  /\ AnsweredValidBatch =>
       /\ response.status = 200
       /\ response.body.kind = "results"
       /\ response.body.message.text # "Failed to classify emails"
       /\ Len(response.body.results) = Len(request.body.emails)
       /\ \A i \in 1..Len(request.body.emails) :
            response.body.results[i].ID = request.body.emails[i].ID

\* two emails, every call failed in transport, and the answer is a 200
C26_Witness ==
  /\ AnsweredValidBatch
  /\ Len(emails) = 2
  /\ resp = NoResponse
  /\ \A i \in 1..2 : results[i].Labels = LabelList(<<>>)
  /\ response.status = 200
  /\ Len(response.body.results) = 2

\* the OpenAIClient has made exactly one outbound call and no pause
OneOutboundCall == Len(reqs) = 1 /\ NumCalls = 1 /\ Len(Answers) = 1 /\ Sleeps = <<>>

\* the call ended in a transport failure or in a status other than 200
OpenAIFailedCall ==
  \/ IsTransportFailure(Answers[1])
  \/ Answers[1].t = "recv" /\ Answers[1].n # StatusOK

\* C27: the OpenAI-shaped client does not retry at all: an operation never
\* makes a second outbound call and never sleeps, an operation that has
\* returned has made exactly one call, and after a transport failure or any
\* non-200 status, 5xx included, it has returned an error and no result.
C27_OpenAINoRetry ==
  /\ Len(reqs) <= 1 /\ NumCalls <= 1 /\ Sleeps = <<>> /\ attempt = 0
  /\ pc = "done" => OneOutboundCall
  /\ (pc = "done" /\ OpenAIFailedCall) => (result = NilResult /\ err # NilError)

\* an operation that received a 503 has returned an error after one call
C27_Witness ==
  /\ pc = "done"
  /\ OneOutboundCall
  /\ Is5xx(Answers[1])
  /\ result = NilResult
  /\ err.kind = "status"

\* the OpenAIClient has returned from a call whose response was neither a
\* transport failure nor a 5xx: the DeepseekClient, given that response
\* first, makes no second attempt either
FirstResponseFinal == pc = "done" /\ Len(Answers) = 1 /\ IsOther(Answers[1])

\* what the same operation of the DeepseekClient returns for this response
DeepseekOutcome == OpOutcome(op, Returned(resp))

BothSucceedEqual ==
  /\ result # NilResult /\ err = NilError
  /\ DeepseekOutcome.res = result /\ DeepseekOutcome.err = NilError

BothFail ==
  /\ result = NilResult /\ err # NilError
  /\ DeepseekOutcome.res = NilResult /\ DeepseekOutcome.err # NilError

\* the model's content holds a code fence, or white space that JSON does not skip
FencedOrPadded(c) == \E i \in 1..Len(c) : c[i] \in {Fence, Nbsp}

OnlyDeepseekSucceeds ==
  /\ op = "classify"
  /\ result = NilResult /\ err.kind = "invalidjson"
  /\ DeepseekOutcome.res # NilResult /\ DeepseekOutcome.err = NilError
  /\ FencedOrPadded(resp.body.choices[1])

WrittenByJSONError == handler = "responded" /\ response.body.kind = "error"

\* C29: every error response written by JSONError is gzip-compressed JSON
\* delivered with headers that match its body: the status code,
\* Content-Type: application/json and Content-Encoding: gzip are all in the
\* header the client receives.
C29_ErrorHeadersMatchBody ==
  WrittenByJSONError =>
    /\ response.wrote
    /\ response.status \in {400, 405, 500}
    /\ response.body.gzip
    /\ response.sent.ContentType = "application/json"
    /\ response.sent.ContentEncoding = "gzip"

\* ------------------------------------------------------------- C30
FixedMessage(o) ==
  IF o = "summarize" THEN "Failed to summarize email" ELSE "Failed to generate draft reply"

\* SummarizeHandler or DraftHandler has answered a request whose call of
\* the client returned an error
AnsweredFailedCall ==
  /\ handler = "responded"
  /\ op \in {"summarize", "draft"}
  /\ err # NilError

\* the handler of an earlier request for the same operation answered a
\* failed call too
EarlierFailedCall == earlier.op = op /\ earlier.err # NilError

\* C30: upstream error detail never reaches the HTTP caller: when
\* SummarizeEmail or DraftReply returns an error, the handler answers with
\* status 500 and the fixed message of its operation, so the responses to
\* two requests are identical whatever their upstream errors were.
C30_NoUpstreamDetail ==
  AnsweredFailedCall =>
    /\ response.status = 500
    /\ response.body.kind = "error"
    /\ response.body.error = "Internal Server Error"
    /\ response.body.message = Message(FixedMessage(op), -1)
    /\ EarlierFailedCall => response = earlier.response

\* two requests for a summary got the same response after a 429 with an API
\* error on one and a persistent 503 on the other
C30_Witness ==
  /\ AnsweredFailedCall
  /\ EarlierFailedCall
  /\ op = "summarize"
  /\ err.kind # earlier.err.kind
  /\ resp.status = 429
  /\ earlier.resp.status = 503
  /\ Len(earlier.log) > Len(log)
  /\ response = earlier.response
====
